---- MODULE Spec2Model ----
(***************************************************************************)
(* Model of src/services/influx.js: the InfluxDB gateway of               *)
(* crypto-pulse-hub.  The module owns one HTTP agent, one client, one      *)
(* write API and one query API, and exports writeData, queryData and       *)
(* queryLatestDataPoint.  The write API (WriteApiImpl of                   *)
(* @influxdata/influxdb-client) is modelled by what the module's calls to  *)
(* it do: writePoints appends to the write buffer, the buffer sends itself *)
(* when it reaches batchSize or when the flush timer elapses, flush sends  *)
(* what is buffered, and a failed batch is re-sent while retries remain.   *)
(***************************************************************************)
EXTENDS Integers, Sequences, FiniteSets, TLC

\* ---------------------------------------------------------------- bounds
MaxCalls == 2            \* operations started between load and exit
MaxLen == 2              \* longest sequence handed to one writeData call
DefaultBatchSize == 2    \* DEFAULT_WriteOptions.batchSize, scaled down
DefaultMaxRetries == 1   \* DEFAULT_WriteOptions.maxRetries, scaled down

\* ------------------------------------------------------------- constants
DefaultFlushInterval == 60000
DefaultMaxBufferLines == 32000
NsPerMs == 1000000

Undefined == 0                     \* an array slot that holds no Point
PointValues == {1, 2}

\* ------------------------------------------------------- write options
DEFAULT_WriteOptions ==
  [batchSize |-> DefaultBatchSize, flushInterval |-> DefaultFlushInterval,
   maxBufferLines |-> DefaultMaxBufferLines, maxRetries |-> DefaultMaxRetries]

flushBatchSize == DEFAULT_WriteOptions.batchSize

\* The object the module builds at lines 10-23.
writeOptions ==
  [batchSize |-> flushBatchSize + 1, flushInterval |-> 15000,
   maxBufferLines |-> 30000, maxRetries |-> 0]

\* getWriteApi(influxOrg, influxBucket, 'ns') is called without a fourth
\* argument, so the write API runs on the library defaults: writeOptions is
\* never handed to it.
writeApiOptions == DEFAULT_WriteOptions

VARIABLES phase, agentCreated, clientCreated, agentDestroyed,
          buffer, timerArmed, batches, calls, log

vars == <<phase, agentCreated, clientCreated, agentDestroyed,
          buffer, timerArmed, batches, calls, log>>

\* The state once the module is loaded: agent, client, write API and query
\* API built, the 'exit' listener registered, nothing buffered or logged.
Init ==
  /\ phase = "running"
  /\ agentCreated = 1
  /\ clientCreated = 1
  /\ agentDestroyed = 0
  /\ buffer = <<>>
  /\ timerArmed = FALSE
  /\ batches = <<>>
  /\ calls = <<>>
  /\ log = <<>>

\* -------------------------------------------------------------- helpers
Running == phase = "running"

NoResponse == [kind |-> "none", rows |-> <<>>, error |-> "none"]

NewCall(op, arg) ==
  [op |-> op, arg |-> arg, status |-> "pending", value |-> <<>>,
   error |-> "none", batch |-> 0, response |-> NoResponse]

Line(c, p) == [call |-> c, point |-> p]

\* sendBatch(lines, maxRetries + 1): a batch on its way to the store, with
\* the attempts it has left.
NewBatch(lines, origin, c, opts) ==
  [lines |-> lines, origin |-> origin, call |-> c,
   left |-> opts.maxRetries + 1, state |-> "inflight"]

\* logger.error / error: one entry of the module's logger.  log[c] holds the
\* entries written on behalf of call c, each by the error its message names.
LogError(l, c, e) == [l EXCEPT ![c] = Append(@, e)]

\* Sequences over S of length 0..n.
RECURSIVE SeqsUpTo(_, _)
SeqsUpTo(S, n) ==
  IF n = 0 THEN {<<>>}
  ELSE LET shorter == SeqsUpTo(S, n - 1)
       IN shorter \cup {Append(q, x) : q \in {r \in shorter : Len(r) = n - 1}, x \in S}

\* Sequences of distinct elements of S of length 0..n.
DistinctSeqs(S, n) ==
  {q \in SeqsUpTo(S, n) : \A i, j \in 1..Len(q) : i # j => q[i] # q[j]}

\* What a caller may hand to writeData: distinct Points, or distinct Points
\* followed by a slot that holds no Point (nothing after such a slot is
\* ever read).
WriteInputs ==
  DistinctSeqs(PointValues, MaxLen)
    \cup {Append(q, Undefined) : q \in DistinctSeqs(PointValues, MaxLen - 1)}

\* ------------------------------------------------------ the write buffer
\* WriteBuffer.add putting the new line in front of the buffered ones.
WriteBufferAdd_Prepend(st, c, p, opts) ==
  LET armed == IF Len(st.buffer) = 0 /\ opts.flushInterval > 0
               THEN TRUE ELSE st.timer
      buf == <<Line(c, p)>> \o st.buffer
  IN IF Len(buf) >= opts.batchSize
     THEN [st EXCEPT !.buffer = <<>>, !.timer = FALSE,
                     !.batches = Append(@, NewBatch(buf, "auto", 0, opts))]
     ELSE [st EXCEPT !.buffer = buf, !.timer = armed]

\* WriteBuffer.add: arm the flush timer on the first line of a batch, append
\* the line, send the batch when it has reached batchSize.
WriteBufferAdd(st, c, p, opts) ==
  LET armed == IF Len(st.buffer) = 0 /\ opts.flushInterval > 0
               THEN TRUE ELSE st.timer
      buf == Append(st.buffer, Line(c, p))
  IN IF Len(buf) >= opts.batchSize
     THEN [st EXCEPT !.buffer = <<>>, !.timer = FALSE,
                     !.batches = Append(@, NewBatch(buf, "auto", 0, opts))]
     ELSE [st EXCEPT !.buffer = buf, !.timer = armed]

\* writeApi.writePoints(points): points[i].toLineProtocol() for i = 0, 1, ...
\* A slot without a Point throws a TypeError and leaves what was added.
RECURSIVE writePoints(_, _, _, _, _)
writePoints(st, c, points, i, opts) ==
  IF i > Len(points) THEN st
  ELSE IF points[i] = Undefined THEN [st EXCEPT !.thrown = TRUE]
  ELSE writePoints(WriteBufferAdd(st, c, points[i], opts), c, points, i + 1, opts)

\* writeApi.flush(): send what is buffered; nothing buffered, nothing sent.
flush(st, c, opts) ==
  IF Len(st.buffer) > 0
  THEN [st EXCEPT !.buffer = <<>>, !.timer = FALSE,
                  !.batches = Append(@, NewBatch(st.buffer, "explicit", c, opts))]
  ELSE st

\* The catch block of writeData (lines 53-56): log, rethrow.
WriteCatch(l, c, e) == LogError(l, c, e)

\* ------------------------------------------------------------ writeData
\* try { writeApi.writePoints(points); return writeApi.flush(); }
\* catch (err) { logger.error(...); throw err; }
\* There is no await between the two calls and none on the returned promise:
\* the call runs to the return in one step, and its promise follows the
\* promise of flush.
WriteData(points) ==
  /\ Running
  /\ Len(calls) < MaxCalls
  /\ LET c == Len(calls) + 1
         st0 == [buffer |-> buffer, timer |-> timerArmed,
                 batches |-> batches, thrown |-> FALSE]
         st1 == writePoints(st0, c, points, 1, writeApiOptions)
         st2 == IF st1.thrown THEN st1 ELSE flush(st1, c, writeApiOptions)
         sent == Len(st2.batches) > Len(st1.batches)
         call == NewCall("write", points)
     IN /\ buffer' = st2.buffer
        /\ timerArmed' = st2.timer
        /\ batches' = st2.batches
        /\ IF st1.thrown
           THEN /\ log' = WriteCatch(Append(log, <<>>), c, "TypeError")
                /\ calls' = Append(calls, [call EXCEPT !.status = "rejected",
                                                       !.error = "TypeError"])
           ELSE /\ log' = Append(log, <<>>)
                /\ calls' = Append(calls,
                     IF sent THEN [call EXCEPT !.batch = Len(st2.batches)]
                     ELSE [call EXCEPT !.status = "resolved"])
  /\ UNCHANGED <<phase, agentCreated, clientCreated, agentDestroyed>>

\* The promise of an explicit flush is the promise of the batch's first send.
Settles(b) ==
  /\ batches[b].origin = "explicit"
  /\ batches[b].left = writeApiOptions.maxRetries + 1

\* The store acknowledges a batch (204).
StoreAck(b) ==
  /\ Running
  /\ b \in 1..Len(batches)
  /\ batches[b].state = "inflight"
  /\ batches' = [batches EXCEPT ![b].state = "ok", ![b].left = 0]
  /\ calls' = IF Settles(b)
              THEN [calls EXCEPT ![batches[b].call].status = "resolved"]
              ELSE calls
  /\ UNCHANGED <<phase, agentCreated, clientCreated, agentDestroyed,
                 buffer, timerArmed, log>>

WriteErrors == {"HttpError503", "HttpError400"}
Retryable(e) == e = "HttpError503"

\* The send of a batch fails.  sendBatch keeps the lines for a retry while
\* attempts remain and the error is not a client error, and rejects either
\* way.  The rejection of flush reaches the caller of writeData directly:
\* the promise is returned, not awaited, so the catch block does not run.
StoreFail(b, e) ==
  /\ Running
  /\ b \in 1..Len(batches)
  /\ batches[b].state = "inflight"
  /\ batches' = IF batches[b].left > 1 /\ Retryable(e)
                THEN [batches EXCEPT ![b].state = "retry", ![b].left = @ - 1]
                ELSE [batches EXCEPT ![b].state = "failed", ![b].left = 0]
  /\ calls' = IF Settles(b)
              THEN [calls EXCEPT ![batches[b].call].status = "rejected",
                                 ![batches[b].call].error = e]
              ELSE calls
  /\ UNCHANGED <<phase, agentCreated, clientCreated, agentDestroyed,
                 buffer, timerArmed, log>>

\* The retry buffer sends a kept batch again.
RetrySend(b) ==
  /\ Running
  /\ b \in 1..Len(batches)
  /\ batches[b].state = "retry"
  /\ batches' = [batches EXCEPT ![b].state = "inflight"]
  /\ UNCHANGED <<phase, agentCreated, clientCreated, agentDestroyed,
                 buffer, timerArmed, calls, log>>

\* flushInterval elapses on a batch that was started and not sent.
FlushTimer ==
  /\ Running
  /\ timerArmed
  /\ timerArmed' = FALSE
  /\ buffer' = <<>>
  /\ batches' = IF Len(buffer) > 0
                THEN Append(batches, NewBatch(buffer, "timer", 0, writeApiOptions))
                ELSE batches
  /\ UNCHANGED <<phase, agentCreated, clientCreated, agentDestroyed, calls, log>>

\* -------------------------------------------------------------- queries
Queries == {"from(bucket) |> range(start: -1h)"}
Metrics == {"price"}

\* Result rows; _time is the instant of the row in nanoseconds.
Rows ==
  {[_time |-> 1500000, symbol |-> "BTC", interval |-> "1m"],
   [_time |-> 2999999, symbol |-> "ETH", interval |-> "5m"]}

QueryErrors == {"QueryError"}

\* What queryApi.collectRows(query) settles with: the rows of the result,
\* one row per series, or an error.
QueryResponses ==
  {[kind |-> "rows", rows |-> r, error |-> "none"] :
     r \in DistinctSeqs(Rows, Cardinality(Rows))}
    \cup {[kind |-> "error", rows |-> <<>>, error |-> e] : e \in QueryErrors}

\* new Date(dataPoint._time).getTime(): a Date holds whole milliseconds.
DateGetTime(t) == t \div NsPerMs

\* The .then handler reading the last row instead of the first.
LatestThen_LastRow(result) ==
  IF Len(result) = 0
  THEN [kind |-> "throw", value |-> <<>>, error |-> "TypeError"]
  ELSE LET dataPoint == result[Len(result)]
       IN [kind |-> "return",
           value |-> <<[timestamp |-> DateGetTime(dataPoint._time),
                        symbol |-> dataPoint.symbol,
                        interval |-> dataPoint.interval]>>,
           error |-> "none"]

\* The .then handler of queryLatestDataPoint (lines 82-89): result[0] of an
\* empty result is undefined, and reading _time of it throws a TypeError.
LatestThen(result) ==
  IF Len(result) = 0
  THEN [kind |-> "throw", value |-> <<>>, error |-> "TypeError"]
  ELSE LET dataPoint == result[1]
       IN [kind |-> "return",
           value |-> <<[timestamp |-> DateGetTime(dataPoint._time),
                        symbol |-> dataPoint.symbol,
                        interval |-> dataPoint.interval]>>,
           error |-> "none"]

\* The .catch handler rethrowing without a log entry.
LatestCatch_NoLog(l, c, e) == l

\* The .catch handler of queryLatestDataPoint (lines 90-93): log, rethrow.
LatestCatch(l, c, e) == LogError(l, c, e)

\* queryData(query): return queryApi.collectRows(query).
QueryData(q) ==
  /\ Running
  /\ Len(calls) < MaxCalls
  /\ calls' = Append(calls, NewCall("query", q))
  /\ log' = Append(log, <<>>)
  /\ UNCHANGED <<phase, agentCreated, clientCreated, agentDestroyed,
                 buffer, timerArmed, batches>>

\* The promise of collectRows is the promise queryData returns.
QueryDataSettle(c, resp) ==
  /\ Running
  /\ c \in 1..Len(calls)
  /\ calls[c].op = "query"
  /\ calls[c].status = "pending"
  /\ calls' = [calls EXCEPT
        ![c].response = resp,
        ![c].status = IF resp.kind = "rows" THEN "resolved" ELSE "rejected",
        ![c].value = resp.rows,
        ![c].error = resp.error]
  /\ UNCHANGED <<phase, agentCreated, clientCreated, agentDestroyed,
                 buffer, timerArmed, batches, log>>

\* queryLatestDataPoint(metric): queryData(query).then(...).catch(...).
QueryLatestDataPoint(metric) ==
  /\ Running
  /\ Len(calls) < MaxCalls
  /\ calls' = Append(calls, NewCall("latest", metric))
  /\ log' = Append(log, <<>>)
  /\ UNCHANGED <<phase, agentCreated, clientCreated, agentDestroyed,
                 buffer, timerArmed, batches>>

\* The query settles: the .then handler runs on rows, and the .catch handler
\* on a failed query or on what the .then handler threw.
LatestSettle(c, resp) ==
  /\ Running
  /\ c \in 1..Len(calls)
  /\ calls[c].op = "latest"
  /\ calls[c].status = "pending"
  /\ LET then == IF resp.kind = "rows" THEN LatestThen(resp.rows)
                 ELSE [kind |-> "throw", value |-> <<>>, error |-> resp.error]
     IN IF then.kind = "return"
        THEN /\ calls' = [calls EXCEPT ![c].response = resp,
                                       ![c].status = "resolved",
                                       ![c].value = then.value]
             /\ log' = log
        ELSE /\ calls' = [calls EXCEPT ![c].response = resp,
                                       ![c].status = "rejected",
                                       ![c].error = then.error]
             /\ log' = LatestCatch(log, c, then.error)
  /\ UNCHANGED <<phase, agentCreated, clientCreated, agentDestroyed,
                 buffer, timerArmed, batches>>

\* ----------------------------------------------------------------- exit
\* An 'exit' listener that leaves the agent alone.
OnExit_NoDestroy(destroyed) == destroyed

\* The 'exit' listener: () => agent.destroy().
OnExit(destroyed) == destroyed + 1

\* The process exits: its 'exit' listeners run once, and nothing runs after.
Exit ==
  /\ Running
  /\ phase' = "exited"
  /\ agentDestroyed' = OnExit(agentDestroyed)
  /\ UNCHANGED <<agentCreated, clientCreated, buffer, timerArmed, batches,
                 calls, log>>

Next ==
  \/ \E points \in WriteInputs : WriteData(points)
  \/ \E b \in 1..Len(batches) : StoreAck(b)
  \/ \E b \in 1..Len(batches), e \in WriteErrors : StoreFail(b, e)
  \/ \E b \in 1..Len(batches) : RetrySend(b)
  \/ FlushTimer
  \/ \E q \in Queries : QueryData(q)
  \/ \E c \in 1..Len(calls), resp \in QueryResponses : QueryDataSettle(c, resp)
  \/ \E m \in Metrics : QueryLatestDataPoint(m)
  \/ \E c \in 1..Len(calls), resp \in QueryResponses : LatestSettle(c, resp)
  \/ Exit

Spec == Init /\ [][Next]_vars

TypeOK ==
  /\ phase \in {"running", "exited"}
  /\ timerArmed \in BOOLEAN
  /\ Len(calls) <= MaxCalls
  /\ Len(log) = Len(calls)
  /\ \A c \in 1..Len(calls) :
       calls[c].status \in {"pending", "resolved", "rejected"}

\* ------------------------------------------------------------ properties
CallIds == 1..Len(calls)
BatchIds == 1..Len(batches)

\* The number of log entries the module's logger holds for call c.
LogCount(c) == Len(log[c])

RECURSIVE LinesFrom(_)
LinesFrom(b) == IF b > Len(batches) THEN buffer
                ELSE batches[b].lines \o LinesFrom(b + 1)

\* Every line that reached the write buffer, in the order it reached it.
AllLines == LinesFrom(1)

\* The points of call c in the order they reached the write buffer.
Reached(c) ==
  LET own(l) == l.call = c
      mine == SelectSeq(AllLines, own)
  IN [i \in 1..Len(mine) |-> mine[i].point]

\* The Points of a sequence up to its first slot without one.
RECURSIVE ValidPrefix(_)
ValidPrefix(points) ==
  IF points = <<>> \/ Head(points) = Undefined THEN <<>>
  ELSE <<Head(points)>> \o ValidPrefix(Tail(points))

\* Batch b carries a point of call c.
Carries(b, c) == \E l \in 1..Len(batches[b].lines) : batches[b].lines[l].call = c

FlushFailed(c) ==
  /\ calls[c].op = "write"
  /\ calls[c].status = "rejected"
  /\ calls[c].batch # 0

\* C1: a writeData call whose flush fails rejects with that error, and by
\* then exactly one log entry referencing the error has been produced.
C1_FlushFailureLoggedOnce ==
  \A c \in CallIds : FlushFailed(c) =>
    /\ calls[c].error \in WriteErrors
    /\ log[c] = <<calls[c].error>>

\* C2: when writeData has resolved, every point of the call has been sent
\* to the store and accepted by it.
C2_ResolvedMeansAccepted ==
  \A c \in CallIds : (calls[c].op = "write" /\ calls[c].status = "resolved") =>
    /\ Reached(c) = calls[c].arg
    /\ \A l \in 1..Len(buffer) : buffer[l].call # c
    /\ \A b \in BatchIds : Carries(b, c) => batches[b].state = "ok"

\* C3: every batch sent to the store was sent by the flush of a writeData
\* call, none by the batch-size threshold and none by the flush timer.
C3_OnlyExplicitFlushSends ==
  \A b \in BatchIds : batches[b].origin = "explicit"

\* C4: a batch is sent to the store exactly once: a failed batch is neither
\* kept for a retry nor in flight a second time.
C4_FailedBatchNeverResent ==
  \A b \in BatchIds :
    /\ batches[b].state # "retry"
    /\ batches[b].state = "inflight" => batches[b].left = DefaultMaxRetries + 1

EmptyResult(c) ==
  /\ calls[c].op = "latest"
  /\ calls[c].response.kind = "rows"
  /\ calls[c].response.rows = <<>>

\* C5: queryLatestDataPoint on an empty result fails with EmptyResultError,
\* not with the fault of reading a field of a row that is not there.
C5_EmptyResultError ==
  \A c \in CallIds : EmptyResult(c) =>
    /\ calls[c].status = "rejected"
    /\ calls[c].error = "EmptyResultError"

QueryFailed(c) ==
  /\ calls[c].op \in {"query", "latest"}
  /\ calls[c].response.kind = "error"

Propagated(c) ==
  /\ calls[c].status = "rejected"
  /\ calls[c].error = calls[c].response.error

C7_OneTransport ==
  /\ agentCreated = 1
  /\ clientCreated = 1
  /\ agentDestroyed = IF phase = "exited" THEN 1 ELSE 0

C7_Witness ==
  /\ phase = "exited"
  /\ agentDestroyed = 1
  /\ \E c \in CallIds : calls[c].op = "write"
  /\ \E c \in CallIds : calls[c].op \in {"query", "latest"}

NonEmptyResult(c) ==
  /\ calls[c].op = "latest"
  /\ calls[c].response.kind = "rows"
  /\ Len(calls[c].response.rows) > 0

\* C9: queryLatestDataPoint on a non-empty result resolves to the first
\* row's _time in whole milliseconds and that row's symbol and interval,
\* and produces no error log entry.
C9_LatestFromFirstRow ==
  \A c \in CallIds : NonEmptyResult(c) =>
    LET row == calls[c].response.rows[1] IN
    /\ calls[c].status = "resolved"
    /\ Len(calls[c].value) = 1
    /\ calls[c].value[1].timestamp * NsPerMs <= row._time
    /\ row._time < (calls[c].value[1].timestamp + 1) * NsPerMs
    /\ calls[c].value[1].symbol = row.symbol
    /\ calls[c].value[1].interval = row.interval
    /\ LogCount(c) = 0

C9_Witness ==
  \E c \in CallIds :
    /\ NonEmptyResult(c)
    /\ Len(calls[c].response.rows) = 2
    /\ calls[c].response.rows[1] # calls[c].response.rows[2]
    /\ calls[c].status = "resolved"
    /\ calls[c].value[1].timestamp = 2
    /\ calls[c].value[1].symbol = "ETH"

\* C10: the points of different writeData calls are never interleaved in
\* the write buffer, and the flush a call requests covers all of the call's
\* own points.
C10_FlushCoversOwnPoints ==
  /\ \A i, j, k \in DOMAIN AllLines :
       (i < j /\ j < k /\ AllLines[i].call = AllLines[k].call)
         => AllLines[j].call = AllLines[i].call
  /\ \A c \in CallIds :
       (calls[c].op = "write" /\ calls[c].error # "TypeError") =>
         \A b \in BatchIds : Carries(b, c) => b = calls[c].batch
====
